---------------------------- MODULE Spec2Model ----------------------------
(***************************************************************************)
(* Graph-analytics engine of the social graph analyzer                     *)
(* (backend/app/services/graph_service.py over                             *)
(* backend/app/repositories/graph_repository.py) and the user and          *)
(* connection handlers it shares the graph with                            *)
(* (backend/app/services/usuario_service.py).                              *)
(*                                                                         *)
(* The property graph kept by the store is the state: the Usuario          *)
(* vertices, the directed CONECTADO edges and the TIENE_HOBBY edges, both  *)
(* kinds counted per pair of ends since CREATE adds an edge each time.     *)
(* Every engine operation is one action that runs the whole service        *)
(* handler on the current graph: it records the request, the store         *)
(* queries the handler issued (in order) and the response it ended with.   *)
(* A store query may raise; the handler then ends with that error          *)
(* (db/database.py get_cursor re-raises after rollback).                   *)
(*                                                                         *)
(* Specifications:                                                         *)
(*   Spec        shortest path, recommendations, ego subgraph              *)
(*   SpecRec     recommendations over larger graphs                        *)
(*   SpecEngine  the five engine operations over graphs with hobbies       *)
(*   SpecCom     communities and the list of all connections               *)
(*   SpecDecode  the same with an array the decoder cannot parse           *)
(*   SpecEgo     the ego call statement by statement, other clients        *)
(*               committing in between                                     *)
(*   SpecCrud    creating and deleting users and connections               *)
(*   SpecCon     connections created and deleted over graphs with edges    *)
(*   SpecHobby   create, PUT, PATCH and delete of users with hobbies       *)
(*   SpecCreate  creating a user statement by statement, other creates     *)
(*               in between                                                *)
(*   SpecVertex  decoding the text of a vertex                             *)
(*   SpecPath    the shortest path call statement by statement, other      *)
(*               clients committing in between                             *)
(*   SpecShared  the ego call next to a request that fails on the shared   *)
(*               connection                                                *)
(***************************************************************************)
EXTENDS Integers, Sequences, FiniteSets, TLC

VARIABLES
    usuarios,    \* ids of the Usuario vertices in the graph
    aristas,     \* directed CONECTADO edges: the number of edges that join
                 \* each pair <<origen, destino>> joined by at least one
    aristasHobby,\* TIENE_HOBBY edges: the number of edges that join each
                 \* pair <<id_usuario, id_hobby>> joined by at least one
    asignados,   \* the ids create has handed out so far, in order
    transaccion, \* the transaction of the one connection every request
                 \* uses: "idle", or "inerror" from a failed statement
                 \* to the rollback that follows it
    request,     \* the engine call being served ([op |-> "none"] when idle)
    queries,     \* the store queries the call issued, in order
    response     \* what the call returned ([status |-> "none"] when idle)

vars == <<usuarios, aristas, aristasHobby, asignados, transaccion, request,
         queries, response>>

\* the pairs <<origen, destino>> a pattern (origen)-[:CONECTADO]->(destino)
\* matches
conectado == DOMAIN aristas

\* the pairs <<id_usuario, id_hobby>> a pattern (u)-[:TIENE_HOBBY]->(h)
\* matches
tieneHobby == DOMAIN aristasHobby

---------------------------------------------------------------------------
(* Bounds of the model.                                                    *)

\* person ids 1..MaxId and at most MaxEdges CONECTADO edges (Spec)
MaxId == 4
MaxEdges == 3
\* the larger graphs the recommendation claims need (SpecRec): two
\* candidates with different common-friend counts take 5 persons, 5 edges
RecMaxId == 5
RecMaxEdges == 5
\* ids handed to the engine as arguments: 1..MaxCallId.  The graphs are
\* closed under renaming of ids, so these cover every argument up to renaming
MaxCallId == 2
\* max_depth values handed to get_shortest_path: -1..MaxDepthArg
MaxDepthArg == 6
\* limit values handed to get_recommendations: 0..MaxLimitArg
MaxLimitArg == 3
\* min_common_friends values handed to get_recommendations: 0..MaxMinCommonArg
MaxMinCommonArg == 2
\* depth values handed to get_ego_graph: 0..MaxEgoDepthArg
MaxEgoDepthArg == 4
\* the Hobby vertices of the catalogue: ids 1..MaxHobby
MaxHobby == 2
\* the graphs with hobbies (SpecEngine, SpecCom, SpecDecode): person ids
\* 1..EngMaxId, at most EngMaxEdges CONECTADO edges, at most one hobby each
EngMaxId == 4
EngMaxEdges == 2
\* create is called at most MaxCreates times in a run (SpecCrud)
MaxCreates == 3
\* vertex envelopes handed to _parse_agtype_vertex (SpecVertex): graph ids
\* and id properties 1..MaxVertexId, text properties of at most MaxText
\* pieces
MaxVertexId == 2
MaxText == 2

---------------------------------------------------------------------------
(* The graphs.                                                             *)

\* no self-loops, at most one edge per ordered pair (a set of pairs)
EdgesOver(ids) == {e \in ids \X ids : e[1] # e[2]}

\* one edge for each pair of E
OneEach(E) == [e \in E |-> 1]

\* the Hobby vertices: a fixed catalogue, no handler creates or deletes one
Hobbies == 1..MaxHobby

RECURSIVE SubsetsUpTo(_, _)
\* the subsets of S with at most n elements
SubsetsUpTo(S, n) ==
    IF n = 0 \/ S = {} THEN {{}}
    ELSE LET x == CHOOSE y \in S : TRUE
             rest == SubsetsUpTo(S \ {x}, n)
             with == {T \cup {x} : T \in SubsetsUpTo(S \ {x}, n - 1)}
         IN  rest \cup with

Idle == request = [op |-> "none"]

InitGraph(maxId, maxEdges) ==
    /\ usuarios \in {1..n : n \in 0..maxId}
    /\ aristas \in {OneEach(E) : E \in SubsetsUpTo(EdgesOver(usuarios), maxEdges)}
    /\ aristasHobby = OneEach({})
    /\ asignados = [i \in 1..Cardinality(usuarios) |-> i]
    /\ transaccion = "idle"
    /\ request = [op |-> "none"]
    /\ queries = <<>>
    /\ response = [status |-> "none"]

Init == InitGraph(MaxId, MaxEdges)

---------------------------------------------------------------------------
(* The store: what each Cypher query of the repositories returns on the    *)
(* current graph.                                                          *)

\* the queries a handler can issue, as recorded in `queries`
QFindById(id) == [q |-> "find_by_id", id |-> id]
QPathProbe(depth) == [q |-> "path_probe", depth |-> depth]
QPathNodes(depth) == [q |-> "path_nodes", depth |-> depth]

\* MATCH (u:Usuario) WHERE u.id_usuario = id ... : a row iff the vertex exists
FindById(id) == id \in usuarios

\* the edges a chain step may take from vertex v: the pattern
\* -[:CONECTADO*n]- has no arrow, so an edge matches in either direction
StepEdges(v) == {e \in conectado : e[1] = v \/ e[2] = v}

OtherEnd(e, v) == IF e[1] = v THEN e[2] ELSE e[1]

RECURSIVE Chains(_, _, _)
\* the vertex sequences of the chains of exactly n edges that start at v
\* and use no edge of `used`: a variable-length match never takes the same
\* relationship twice, while a vertex may repeat
Chains(v, used, n) ==
    IF n = 0 THEN {<<v>>}
    ELSE UNION {{<<v>> \o c : c \in Chains(OtherEnd(e, v), used \cup {e}, n - 1)}
                   : e \in StepEdges(v) \ used}

\* mutant: the vertices of the chain listed from the destination back
MatchPathBackwards(o, d, depth) ==
    IF o \in usuarios /\ d \in usuarios
    THEN {[i \in 1..(depth + 1) |-> c[depth + 2 - i]]
            : c \in {b \in Chains(o, {}, depth) : b[depth + 1] = d}}
    ELSE {}

\* MATCH path = (origen {id_usuario: o})-[:CONECTADO*depth]-(destino {id_usuario: d})
MatchPath(o, d, depth) ==
    IF o \in usuarios /\ d \in usuarios
    THEN {c \in Chains(o, {}, depth) : c[depth + 1] = d}
    ELSE {}

QFofRecommendations(limit, min_common) ==
    [q |-> "fof_recommendations", limit |-> limit, min_common |-> min_common]
QEgoNodes(depth, max_nodes) ==
    [q |-> "ego_nodes", depth |-> depth, max_nodes |-> max_nodes]
QEgoEdges(node_ids) == [q |-> "ego_edges", node_ids |-> node_ids]

Min(a, b) == IF a <= b THEN a ELSE b

RECURSIVE Perms(_)
\* the orders in which the store may hand out the elements of S
Perms(S) ==
    IF S = {} THEN {<<>>}
    ELSE UNION {{<<x>> \o p : p \in Perms(S \ {x})} : x \in S}

RECURSIVE Ascending(_)
\* the elements of a set of integers as a list, in ascending order
Ascending(S) ==
    IF S = {} THEN <<>>
    ELSE LET x == CHOOSE y \in S : \A z \in S : y <= z
         IN  <<x>> \o Ascending(S \ {x})

\* an agtype array as the driver hands it over: the text of a JSON list
AgArray(items) == [kind |-> "array", items |-> items]

\* mutant: the second hop matched against its direction, (friend)<-(fof)
CommonFriendsReversed(user, fof) ==
    {friend \in usuarios : <<user, friend>> \in conectado
                           /\ <<fof, friend>> \in conectado}

\* collect(DISTINCT friend.id_usuario) over
\* (user)-[:CONECTADO]->(friend)-[:CONECTADO]->(fof), grouped by fof
CommonFriends(user, fof) ==
    {friend \in usuarios : <<user, friend>> \in conectado
                           /\ <<friend, fof>> \in conectado}

\* mutant: the query without its NOT EXISTS((user)-[:CONECTADO]->(fof))
FofMatchesKeepsConnected(user, min_common) ==
    {fof \in usuarios :
        /\ user \in usuarios
        /\ CommonFriends(user, fof) # {}
        /\ user # fof
        /\ Cardinality(CommonFriends(user, fof)) >= min_common}

\* the fof vertices the recommendation query keeps: matched by the two-hop
\* pattern, not the user, not already connected from the user, and with
\* size(common_friends) >= min_common
FofMatches(user, min_common) ==
    {fof \in usuarios :
        /\ user \in usuarios
        /\ CommonFriends(user, fof) # {}
        /\ user # fof
        /\ <<user, fof>> \notin conectado
        /\ Cardinality(CommonFriends(user, fof)) >= min_common}

\* mutant: ORDER BY size(common_friends) without DESC
OrderedBySizeAsc(user, p) ==
    \A i \in 1..Len(p), j \in 1..Len(p) :
        i < j => Cardinality(CommonFriends(user, p[i]))
                   <= Cardinality(CommonFriends(user, p[j]))

\* ORDER BY size(common_friends) DESC: rows of equal size come in any order
OrderedBySizeDesc(user, p) ==
    \A i \in 1..Len(p), j \in 1..Len(p) :
        i < j => Cardinality(CommonFriends(user, p[i]))
                   >= Cardinality(CommonFriends(user, p[j]))

\* mutant: LIMIT limit on the matches in any order, no ORDER BY before it
FofRowsUnordered(user, limit, min_common) ==
    {[i \in 1..Min(limit, Len(p)) |->
         [id_usuario |-> p[i],
          common_friends |-> AgArray(Ascending(CommonFriends(user, p[i])))]]
       : p \in Perms(FofMatches(user, min_common))}

\* the rows of the recommendation query: ordered, then LIMIT limit.  The ids
\* inside one array are listed in ascending order here; the store fixes no
\* order for them and the repository only counts and copies them.
FofRows(user, limit, min_common) ==
    {[i \in 1..Min(limit, Len(p)) |->
         [id_usuario |-> p[i],
          common_friends |-> AgArray(Ascending(CommonFriends(user, p[i])))]]
       : p \in {q \in Perms(FofMatches(user, min_common)) :
                   OrderedBySizeDesc(user, q)}}

\* (center)-[:CONECTADO*1..depth]-(u:Usuario) RETURN DISTINCT u...
EgoMatches(center, depth) ==
    IF center \in usuarios
    THEN UNION {{c[n + 1] : c \in Chains(center, {}, n)} : n \in 1..depth}
    ELSE {}

\* ... LIMIT max_nodes: any max_nodes of the rows when there are more
EgoNodeRows(center, depth, max_nodes) ==
    IF Cardinality(EgoMatches(center, depth)) <= max_nodes
    THEN {EgoMatches(center, depth)}
    ELSE {S \in SUBSET EgoMatches(center, depth) : Cardinality(S) = max_nodes}

\* mutant: the edges of the graph, whatever the node set
EgoEdgeRowsUnfiltered(node_ids) == conectado

\* (n1)-[:CONECTADO]->(n2) WHERE n1.id_usuario IN [ids] AND n2.id_usuario IN [ids]
EgoEdgeRows(node_ids) ==
    {e \in conectado : e[1] \in node_ids /\ e[2] \in node_ids}

RECURSIVE EdgeList(_)
\* a set of edges as the list of rows of a query, by source and target
EdgeList(S) ==
    IF S = {} THEN <<>>
    ELSE LET e == CHOOSE x \in S :
                    \A y \in S : x[1] < y[1] \/ (x[1] = y[1] /\ x[2] <= y[2])
         IN  <<e>> \o EdgeList(S \ {e})

---------------------------------------------------------------------------
(* Shortest path.                                                          *)

RECURSIVE FindShortestPathFrom(_, _, _, _, _)
\* GraphRepository.find_shortest_path, its loop from `depth` on: every
\* outcome [queries, found, path] it can end with, `issued` being the
\* queries issued so far.  found = FALSE is the None it returns.
FindShortestPathFrom(o, d, depth, max_depth, issued) ==
    IF depth > max_depth
    THEN {[queries |-> issued, found |-> FALSE, path |-> <<>>]}
    ELSE LET probed == Append(issued, QPathProbe(depth))
         IN  IF MatchPath(o, d, depth) # {}
             THEN {[queries |-> Append(probed, QPathNodes(depth)),
                    found |-> Len(rows) > 0,
                    path |-> rows] : rows \in MatchPath(o, d, depth)}
             ELSE FindShortestPathFrom(o, d, depth + 1, max_depth, probed)

\* mutant: range(1, max_depth), the last depth never probed
FindShortestPathStopsEarly(o, d, max_depth, issued) ==
    FindShortestPathFrom(o, d, 1, max_depth - 1, issued)

\* mutant: one more probe, a depth further, after the chain was found
FindShortestPathProbesOn(o, d, max_depth, issued) ==
    {[r EXCEPT !.queries =
          IF r.found /\ Len(r.path) <= max_depth
          THEN Append(r.queries, QPathProbe(Len(r.path)))
          ELSE r.queries]
       : r \in FindShortestPathFrom(o, d, 1, max_depth, issued)}

FindShortestPath(o, d, max_depth, issued) ==
    FindShortestPathFrom(o, d, 1, max_depth, issued)

NotFound == [status |-> "not_found"]

\* GraphService.get_shortest_path: every run [queries, response] of the
\* handler when no store query raises
GetShortestPath(o, d, max_depth) ==
    IF ~FindById(o)
    THEN {[queries |-> <<QFindById(o)>>, response |-> NotFound]}
    ELSE IF ~FindById(d)
    THEN {[queries |-> <<QFindById(o), QFindById(d)>>, response |-> NotFound]}
    ELSE {[queries |-> r.queries,
           response |->
               IF ~r.found \/ Len(r.path) = 0
               THEN [status |-> "ok", exists |-> FALSE, path |-> <<>>, length |-> 0]
               ELSE [status |-> "ok", exists |-> TRUE, path |-> r.path,
                     length |-> Len(r.path) - 1]]
             : r \in FindShortestPath(o, d, max_depth,
                                      <<QFindById(o), QFindById(d)>>)}

---------------------------------------------------------------------------
(* Recommendations (friend of friend).                                     *)

\* GraphRepository._parse_agtype_array on the text of a row's array: None
\* and the empty list give [], a JSON list gives its non-null items as
\* integers, text that is no JSON gives []
ParseAgtypeArray(agtype_value) ==
    IF agtype_value.kind = "null" THEN <<>>
    ELSE IF agtype_value.kind = "array"
    THEN SelectSeq(agtype_value.items, LAMBDA item : item \in Int)
    ELSE <<>>

\* mutant: max_common overwritten by every row, the last one's count stays
MaxCommonLast(temp_results, i, max_common) ==
    IF Len(temp_results) = 0 THEN max_common
    ELSE temp_results[Len(temp_results)].common_count

RECURSIVE MaxCommonFrom(_, _, _)
\* the loop over the rows that keeps max_common: it starts at 1 and takes
\* every larger common_count
MaxCommonFrom(temp_results, i, max_common) ==
    IF i > Len(temp_results) THEN max_common
    ELSE MaxCommonFrom(temp_results, i + 1,
                       IF temp_results[i].common_count > max_common
                       THEN temp_results[i].common_count
                       ELSE max_common)

\* round(n / d, 2) in hundredths (and round(n / d, 4) in ten-thousandths),
\* n >= 0 < d: to the nearest, an exact half to the even neighbour
RoundHalfEven(n, d) ==
    LET q == n \div d
        r == n % d
    IN  IF 2 * r < d THEN q
        ELSE IF 2 * r > d THEN q + 1
        ELSE IF q % 2 = 0 THEN q ELSE q + 1

\* score = round(common_count / max_common, 2), in hundredths
Score(common_count, max_common) == RoundHalfEven(100 * common_count, max_common)

\* GraphRepository.get_friend_of_friend_recommendations on the rows the
\* store returned
Recommendations(results) ==
    LET temp_results ==
            [i \in 1..Len(results) |->
                [id_usuario |-> results[i].id_usuario,
                 common_friends |-> ParseAgtypeArray(results[i].common_friends),
                 common_count |->
                     Len(ParseAgtypeArray(results[i].common_friends))]]
        max_common == MaxCommonFrom(temp_results, 1, 1)
    IN  IF Len(results) = 0 THEN <<>>
        ELSE [i \in 1..Len(temp_results) |->
                 [id_usuario |-> temp_results[i].id_usuario,
                  common_friends |-> temp_results[i].common_count,
                  common_friends_ids |-> temp_results[i].common_friends,
                  score |-> Score(temp_results[i].common_count, max_common)]]

\* mutant: the handler without the check that the user exists
GetRecommendationsUnchecked(id_usuario, limit, min_common) ==
    {[queries |-> <<QFofRecommendations(limit, min_common)>>,
      response |-> [status |-> "ok",
                    user_id |-> id_usuario,
                    recommendations |-> Recommendations(results),
                    total |-> Len(Recommendations(results))]]
       : results \in FofRows(id_usuario, limit, min_common)}

\* GraphService.get_recommendations, `answers` being the row lists the
\* store may answer the recommendation query with
GetRecommendationsFrom(id_usuario, limit, min_common, answers) ==
    IF ~FindById(id_usuario)
    THEN {[queries |-> <<QFindById(id_usuario)>>, response |-> NotFound]}
    ELSE {[queries |-> <<QFindById(id_usuario),
                         QFofRecommendations(limit, min_common)>>,
           response |-> [status |-> "ok",
                         user_id |-> id_usuario,
                         recommendations |-> Recommendations(results),
                         total |-> Len(Recommendations(results))]]
             : results \in answers}

GetRecommendations(id_usuario, limit, min_common) ==
    GetRecommendationsFrom(id_usuario, limit, min_common,
                           FofRows(id_usuario, limit, min_common))

---------------------------------------------------------------------------
(* Ego subgraph.                                                           *)

\* the ranges GraphService.get_ego_graph accepts
MinEgoDepth == 1
MaxEgoDepth == 3
MinMaxNodes == 10
MaxMaxNodes == 2000

BadRequest == [status |-> "bad_request"]

\* the edges get_ego_subgraph builds from the rows of the edge query: ids
\* e0, e1, ... by enumerate, in row order
EgoEdges(edge_results) ==
    [i \in 1..Len(edge_results) |->
        [id |-> i - 1,
         source |-> edge_results[i][1],
         target |-> edge_results[i][2]]]

\* GraphRepository.get_ego_subgraph: [queries, nodes, edges] for each answer
\* of the node query; nodes are the ids of the rows, edges get the ids
\* e0, e1, ... in row order
GetEgoSubgraph(id_usuario, depth, max_nodes, issued) ==
    {LET withNodes == Append(issued, QEgoNodes(depth, max_nodes))
         edge_results == EdgeList(EgoEdgeRows(node_ids))
     IN  IF node_ids # {}
         THEN [queries |-> Append(withNodes, QEgoEdges(node_ids)),
               nodes |-> node_ids,
               edges |-> EgoEdges(edge_results)]
         ELSE [queries |-> withNodes, nodes |-> node_ids, edges |-> <<>>]
       : node_ids \in EgoNodeRows(id_usuario, depth, max_nodes)}

\* mutant: density over the ordered pairs, n * (n - 1), not n * (n - 1) / 2
GraphStatsOrderedPairs(total_nodes, total_edges) ==
    [total_nodes |-> total_nodes,
     total_edges |-> total_edges,
     density |-> IF total_nodes * (total_nodes - 1) > 0
                 THEN RoundHalfEven(10000 * total_edges,
                                    total_nodes * (total_nodes - 1))
                 ELSE 0,
     avg_degree |-> IF total_nodes > 0
                    THEN RoundHalfEven(100 * 2 * total_edges, total_nodes)
                    ELSE 0]

\* the stats of a subgraph of total_nodes nodes and total_edges edges:
\* avg_degree in hundredths, density in ten-thousandths
GraphStats(total_nodes, total_edges) ==
    [total_nodes |-> total_nodes,
     total_edges |-> total_edges,
     density |-> IF total_nodes * (total_nodes - 1) > 0
                 THEN RoundHalfEven(10000 * 2 * total_edges,
                                    total_nodes * (total_nodes - 1))
                 ELSE 0,
     avg_degree |-> IF total_nodes > 0
                    THEN RoundHalfEven(100 * 2 * total_edges, total_nodes)
                    ELSE 0]

\* GraphService.get_ego_graph
GetEgoGraph(id_usuario, depth, max_nodes) ==
    IF ~FindById(id_usuario)
    THEN {[queries |-> <<QFindById(id_usuario)>>, response |-> NotFound]}
    ELSE IF depth < MinEgoDepth \/ depth > MaxEgoDepth
    THEN {[queries |-> <<QFindById(id_usuario)>>, response |-> BadRequest]}
    ELSE IF max_nodes < MinMaxNodes \/ max_nodes > MaxMaxNodes
    THEN {[queries |-> <<QFindById(id_usuario)>>, response |-> BadRequest]}
    ELSE {[queries |-> g.queries,
           response |-> [status |-> "ok",
                         nodes |-> g.nodes,
                         edges |-> g.edges,
                         stats |-> GraphStats(Cardinality(g.nodes),
                                              Len(g.edges))]]
             : g \in GetEgoSubgraph(id_usuario, depth, max_nodes,
                                    <<QFindById(id_usuario)>>)}

---------------------------------------------------------------------------
(* Communities and the list of all connections.                            *)

QCommunities == [q |-> "communities"]
QAllConnections == [q |-> "all_connections"]

\* collect(DISTINCT u.id_usuario) over (u:Usuario)-[:TIENE_HOBBY]->(h)
HobbyMembers(id_hobby) == {u \in usuarios : <<u, id_hobby>> \in tieneHobby}

\* mutant: the query without its WHERE size(members) > 1
HobbyGroupsAll == {h \in Hobbies : HobbyMembers(h) # {}}

\* the hobbies the community query keeps: WHERE size(members) > 1
HobbyGroups == {h \in Hobbies : Cardinality(HobbyMembers(h)) > 1}

\* the rows of the community query, ORDER BY size(members) DESC: rows of
\* equal size come in any order
CommunityRows ==
    {[i \in 1..Len(p) |->
         [community_id |-> p[i],
          members |-> AgArray(Ascending(HobbyMembers(p[i])))]]
       : p \in {q \in Perms(HobbyGroups) :
                   \A i \in 1..Len(q), j \in 1..Len(q) :
                       i < j => Cardinality(HobbyMembers(q[i]))
                                  >= Cardinality(HobbyMembers(q[j]))}}

\* GraphRepository.detect_communities_by_hobby on the rows of the store
DetectCommunitiesByHobby(results) ==
    [i \in 1..Len(results) |->
        [community_id |-> results[i].community_id,
         members |-> ParseAgtypeArray(results[i].members),
         size |-> Len(ParseAgtypeArray(results[i].members))]]

\* GraphService.detect_communities
DetectCommunitiesFrom(answers) ==
    {[queries |-> <<QCommunities>>,
      response |-> [status |-> "ok",
                    communities |-> DetectCommunitiesByHobby(results),
                    total_communities |-> Len(DetectCommunitiesByHobby(results))]]
       : results \in answers}

DetectCommunities == DetectCommunitiesFrom(CommunityRows)

\* mutant: the second match against its direction, (u)<-[:CONECTADO]-(c)
OutNeighborsReversed(u) == {c \in usuarios : <<c, u>> \in conectado}

\* OPTIONAL MATCH (u)-[:CONECTADO]->(c:Usuario)
OutNeighbors(u) == {c \in usuarios : <<u, c>> \in conectado}

\* the rows of the connections query: one row per Usuario, ORDER BY
\* u.id_usuario, with collect(DISTINCT c.id_usuario), [] when none matched
AllConnectionRows ==
    LET ids == Ascending(usuarios)
    IN  [i \in 1..Len(ids) |->
            [id_usuario |-> ids[i],
             conexiones |-> AgArray(Ascending(OutNeighbors(ids[i])))]]

\* mutant: every row kept, the ones with an empty list too
KeepAllRows(rows) == rows

\* "if conexiones:" -- only the rows with at least one connection
KeepConnected(rows) == SelectSeq(rows, LAMBDA row : Len(row.conexiones) > 0)

\* GraphRepository.get_all_connections on the rows of the store
Conexiones(results) ==
    KeepConnected(
        [i \in 1..Len(results) |->
            [id_usuario |-> results[i].id_usuario,
             conexiones |->
                 SelectSeq(ParseAgtypeArray(results[i].conexiones),
                           LAMBDA c : c # results[i].id_usuario)]])

RECURSIVE SumLen(_)
\* sum(len(conn['conexiones']) for conn in conexiones)
SumLen(conexiones) ==
    IF Len(conexiones) = 0 THEN 0
    ELSE Len(conexiones[1].conexiones) + SumLen(Tail(conexiones))

\* GraphService.get_all_connections
GetAllConnectionsFrom(answers) ==
    {[queries |-> <<QAllConnections>>,
      response |->
          [status |-> "ok",
           conexiones |-> Conexiones(results),
           stats |-> [total_usuarios_con_conexiones |-> Len(Conexiones(results)),
                      total_conexiones |-> SumLen(Conexiones(results))]]]
       : results \in answers}

GetAllConnections == GetAllConnectionsFrom({AllConnectionRows})

---------------------------------------------------------------------------
(* Store failures.                                                         *)

\* mutant: the exception caught and turned into the empty result
GetCursorSwallows(run, fail) ==
    IF fail = 0 THEN run
    ELSE [queries |-> SubSeq(run.queries, 1, fail),
          response |-> [status |-> "ok", exists |-> FALSE, path |-> <<>>,
                        length |-> 0]]

\* mutant: the failing query run a second time, the handler going on with it
GetCursorRetries(run, fail) ==
    IF fail = 0 THEN run
    ELSE [queries |-> SubSeq(run.queries, 1, fail)
                        \o SubSeq(run.queries, fail, Len(run.queries)),
          response |-> run.response]

\* DatabaseConnection.get_cursor: query number `fail` raises, or decoding
\* its rows inside the cursor block does (0: nothing raises); the cursor
\* rolls back and re-raises, no handler catches it, and the call ends with
\* the error after the queries issued up to that one
GetCursor(run, fail) ==
    IF fail = 0 THEN run
    ELSE [queries |-> SubSeq(run.queries, 1, fail),
          response |-> [status |-> "error"]]

---------------------------------------------------------------------------
(* The actions.                                                            *)

CallIds == 1..MaxCallId
DepthArgs == (0 - 1)..MaxDepthArg

ShortestPath ==
    /\ Idle
    /\ \E o \in CallIds, d \in CallIds, max_depth \in DepthArgs :
         \E run \in GetShortestPath(o, d, max_depth) :
           \E fail \in 0..Len(run.queries) :
             /\ request' = [op |-> "shortest_path", origen |-> o, destino |-> d,
                            max_depth |-> max_depth, fail |-> fail]
             /\ queries' = GetCursor(run, fail).queries
             /\ response' = GetCursor(run, fail).response
    /\ UNCHANGED <<usuarios, aristas, aristasHobby, asignados, transaccion>>

LimitArgs == 0..MaxLimitArg
MinCommonArgs == 0..MaxMinCommonArg
EgoDepthArgs == 0..MaxEgoDepthArg
MaxNodesArgs == {MinMaxNodes - 1, MinMaxNodes, MaxMaxNodes, MaxMaxNodes + 1}

Recommend ==
    /\ Idle
    /\ \E id_usuario \in CallIds, limit \in LimitArgs, min_common \in MinCommonArgs :
         \E run \in GetRecommendations(id_usuario, limit, min_common) :
           \E fail \in 0..Len(run.queries) :
             /\ request' = [op |-> "recommendations", id_usuario |-> id_usuario,
                            limit |-> limit, min_common |-> min_common,
                            fail |-> fail]
             /\ queries' = GetCursor(run, fail).queries
             /\ response' = GetCursor(run, fail).response
    /\ UNCHANGED <<usuarios, aristas, aristasHobby, asignados, transaccion>>

EgoGraph ==
    /\ Idle
    /\ \E id_usuario \in CallIds, depth \in EgoDepthArgs, max_nodes \in MaxNodesArgs :
         \E run \in GetEgoGraph(id_usuario, depth, max_nodes) :
           \E fail \in 0..Len(run.queries) :
             /\ request' = [op |-> "ego", id_usuario |-> id_usuario,
                            depth |-> depth, max_nodes |-> max_nodes,
                            fail |-> fail]
             /\ queries' = GetCursor(run, fail).queries
             /\ response' = GetCursor(run, fail).response
    /\ UNCHANGED <<usuarios, aristas, aristasHobby, asignados, transaccion>>

\* the route hands the response to the caller; the engine is idle again
Deliver ==
    /\ ~Idle
    /\ request' = [op |-> "none"]
    /\ queries' = <<>>
    /\ response' = [status |-> "none"]
    /\ UNCHANGED <<usuarios, aristas, aristasHobby, asignados, transaccion>>

Next == ShortestPath \/ Recommend \/ EgoGraph \/ Deliver

Spec == Init /\ [][Next]_vars

\* the recommendation engine alone, over the larger graphs
InitRec == InitGraph(RecMaxId, RecMaxEdges)

NextRec == Recommend \/ Deliver

SpecRec == InitRec /\ [][NextRec]_vars

\* mutant: the handler's transaction also deletes the TIENE_HOBBY edges
CommunitiesDeletes ==
    /\ Idle
    /\ \E run \in DetectCommunities :
         \E fail \in 0..Len(run.queries) :
           /\ request' = [op |-> "communities", fail |-> fail]
           /\ queries' = GetCursor(run, fail).queries
           /\ response' = GetCursor(run, fail).response
    /\ aristasHobby' = OneEach({})
    /\ UNCHANGED <<usuarios, aristas, asignados, transaccion>>

Communities ==
    /\ Idle
    /\ \E run \in DetectCommunities :
         \E fail \in 0..Len(run.queries) :
           /\ request' = [op |-> "communities", fail |-> fail]
           /\ queries' = GetCursor(run, fail).queries
           /\ response' = GetCursor(run, fail).response
    /\ UNCHANGED <<usuarios, aristas, aristasHobby, asignados, transaccion>>

AllConnections ==
    /\ Idle
    /\ \E run \in GetAllConnections :
         \E fail \in 0..Len(run.queries) :
           /\ request' = [op |-> "all_connections", fail |-> fail]
           /\ queries' = GetCursor(run, fail).queries
           /\ response' = GetCursor(run, fail).response
    /\ UNCHANGED <<usuarios, aristas, aristasHobby, asignados, transaccion>>

\* the graphs with hobbies: every person has one hobby or none
InitHobby(maxId, maxEdges) ==
    /\ usuarios \in {1..n : n \in 0..maxId}
    /\ aristas \in {OneEach(E) : E \in SubsetsUpTo(EdgesOver(usuarios), maxEdges)}
    /\ aristasHobby \in
         {OneEach({<<u, hobby[u]>> : u \in {v \in usuarios : hobby[v] # 0}})
             : hobby \in [usuarios -> 0..MaxHobby]}
    /\ asignados = [i \in 1..Cardinality(usuarios) |-> i]
    /\ transaccion = "idle"
    /\ request = [op |-> "none"]
    /\ queries = <<>>
    /\ response = [status |-> "none"]

InitEngine == InitHobby(EngMaxId, EngMaxEdges)

\* the five engine operations
NextEngine ==
    \/ ShortestPath
    \/ Recommend
    \/ EgoGraph
    \/ Communities
    \/ AllConnections
    \/ Deliver

SpecEngine == InitEngine /\ [][NextEngine]_vars

\* the two whole-graph operations alone
NextCom == Communities \/ AllConnections \/ Deliver

SpecCom == InitEngine /\ [][NextCom]_vars

---------------------------------------------------------------------------
(* A store that hands over an array the decoder cannot parse.              *)

\* an agtype array whose text is not JSON
Malformed == [kind |-> "malformed"]

\* the rows with the array in column `field` of row k malformed
Corrupt(rows, field, k) ==
    [rows EXCEPT ![k] = [rows[k] EXCEPT ![field] = Malformed]]

RecommendMalformed ==
    /\ Idle
    /\ \E id_usuario \in CallIds, limit \in LimitArgs, min_common \in MinCommonArgs :
         \E results \in FofRows(id_usuario, limit, min_common) :
           \E k \in 1..Len(results) :
             \E run \in GetRecommendationsFrom(
                            id_usuario, limit, min_common,
                            {Corrupt(results, "common_friends", k)}) :
               \E fail \in 0..Len(run.queries) :
                 /\ request' = [op |-> "recommendations",
                                id_usuario |-> id_usuario, limit |-> limit,
                                min_common |-> min_common, fail |-> fail,
                                malformed |-> k]
                 /\ queries' = GetCursor(run, fail).queries
                 /\ response' = GetCursor(run, fail).response
    /\ UNCHANGED <<usuarios, aristas, aristasHobby, asignados, transaccion>>

CommunitiesMalformed ==
    /\ Idle
    /\ \E results \in CommunityRows :
         \E k \in 1..Len(results) :
           \E run \in DetectCommunitiesFrom({Corrupt(results, "members", k)}) :
             \E fail \in 0..Len(run.queries) :
               /\ request' = [op |-> "communities", fail |-> fail,
                              malformed |-> k]
               /\ queries' = GetCursor(run, fail).queries
               /\ response' = GetCursor(run, fail).response
    /\ UNCHANGED <<usuarios, aristas, aristasHobby, asignados, transaccion>>

AllConnectionsMalformed ==
    /\ Idle
    /\ \E k \in 1..Len(AllConnectionRows) :
         \E run \in GetAllConnectionsFrom(
                        {Corrupt(AllConnectionRows, "conexiones", k)}) :
           \E fail \in 0..Len(run.queries) :
             /\ request' = [op |-> "all_connections", fail |-> fail,
                            malformed |-> k]
             /\ queries' = GetCursor(run, fail).queries
             /\ response' = GetCursor(run, fail).response
    /\ UNCHANGED <<usuarios, aristas, aristasHobby, asignados, transaccion>>

NextDecode ==
    \/ RecommendMalformed
    \/ CommunitiesMalformed
    \/ AllConnectionsMalformed
    \/ Deliver

SpecDecode == InitEngine /\ [][NextDecode]_vars

---------------------------------------------------------------------------
(* Users and connections (services/usuario_service.py over                 *)
(* repositories/usuario_repository.py).  Each handler is given as the      *)
(* outcome of one whole call on the current graph: its response and the    *)
(* graph it leaves.                                                        *)

\* the largest of a non-empty set of integers
MaxOf(S) == CHOOSE x \in S : \A y \in S : y <= x

\* UsuarioRepository.get_next_usuario_id: the largest id_usuario in the
\* graph plus one, 1 when there is no Usuario
GetNextUsuarioId == IF usuarios = {} THEN 1 ELSE MaxOf(usuarios) + 1

Unchanged(resp) ==
    [response |-> resp, usuarios |-> usuarios, aristas |-> aristas,
     aristasHobby |-> aristasHobby, asignados |-> asignados]

Conflict == [status |-> "conflict"]

\* the CREATE (u)-[:TIENE_HOBBY]->(h) of UsuarioRepository.create and
\* create_hobby_relationship: one more edge from the user to the hobby
CreateHobbyEdge(hobbyEdges, id_usuario, hobby_id) ==
    LET p == <<id_usuario, hobby_id>>
    IN  [t \in DOMAIN hobbyEdges \cup {p} |->
            IF t # p THEN hobbyEdges[t]
            ELSE IF p \in DOMAIN hobbyEdges THEN hobbyEdges[p] + 1 ELSE 1]

\* MATCH (u)-[r:TIENE_HOBBY]->(:Hobby) DELETE r, and the TIENE_HOBBY part of
\* DETACH DELETE: every hobby edge of the user goes
DeleteHobbyEdges(hobbyEdges, id_usuario) ==
    [t \in {d \in DOMAIN hobbyEdges : d[1] # id_usuario} |-> hobbyEdges[t]]

\* update_hobby_relationship without the DELETE of the edge there was
UpdateHobbyRelationshipAdds(id_usuario, hobby_id) ==
    IF hobby_id # 0
    THEN CreateHobbyEdge(aristasHobby, id_usuario, hobby_id)
    ELSE aristasHobby

\* UsuarioRepository.update_hobby_relationship: delete the hobby edges of
\* the user, then create the new one when a hobby is given (0 is None)
UpdateHobbyRelationship(id_usuario, hobby_id) ==
    LET deleted == DeleteHobbyEdges(aristasHobby, id_usuario)
    IN  IF hobby_id # 0
        THEN CreateHobbyEdge(deleted, id_usuario, hobby_id)
        ELSE deleted

\* UsuarioService.create_usuario.  id_hobby = 0 is "no hobby"; taken says
\* whether a Usuario with the same normalised nombre and apellidos exists
CreateUsuario(id_hobby, taken) ==
    IF taken THEN Unchanged(Conflict)
    ELSE IF id_hobby # 0 /\ id_hobby \notin Hobbies THEN Unchanged(BadRequest)
    ELSE LET next_id == GetNextUsuarioId
         IN  [response |-> [status |-> "ok", id_usuario |-> next_id],
              usuarios |-> usuarios \cup {next_id},
              aristas |-> aristas,
              aristasHobby |-> IF id_hobby # 0
                               THEN CreateHobbyEdge(aristasHobby, next_id, id_hobby)
                               ELSE aristasHobby,
              asignados |-> Append(asignados, next_id)]

\* UsuarioService.update_usuario (PUT): every field is given; id_hobby = 0
\* is None and takes the hobby away
UpdateUsuario(id_usuario, id_hobby, taken) ==
    IF ~FindById(id_usuario) THEN Unchanged(NotFound)
    ELSE IF taken THEN Unchanged(Conflict)
    ELSE IF id_hobby # 0 /\ id_hobby \notin Hobbies THEN Unchanged(BadRequest)
    ELSE [response |-> [status |-> "ok"],
          usuarios |-> usuarios,
          aristas |-> aristas,
          aristasHobby |-> UpdateHobbyRelationship(id_usuario, id_hobby),
          asignados |-> asignados]

\* UsuarioService.patch_usuario (PATCH): only the fields given change.
\* fields says whether a field other than id_hobby is given, named whether
\* nombre or apellidos is among them; id_hobby = 0 is "not given"
PatchUsuario(id_usuario, id_hobby, fields, named, taken) ==
    IF ~FindById(id_usuario) THEN Unchanged(NotFound)
    ELSE IF ~fields /\ id_hobby = 0 THEN Unchanged(BadRequest)
    ELSE IF named /\ taken THEN Unchanged(Conflict)
    ELSE IF id_hobby # 0 /\ id_hobby \notin Hobbies THEN Unchanged(BadRequest)
    ELSE [response |-> [status |-> "ok"],
          usuarios |-> usuarios,
          aristas |-> aristas,
          aristasHobby |-> IF id_hobby # 0
                           THEN UpdateHobbyRelationship(id_usuario, id_hobby)
                           ELSE aristasHobby,
          asignados |-> asignados]

\* UsuarioService.delete_usuario: DETACH DELETE takes the vertex and every
\* relationship that touches it
DeleteUsuario(id_usuario) ==
    IF ~FindById(id_usuario) THEN Unchanged(NotFound)
    ELSE [response |-> [status |-> "ok"],
          usuarios |-> usuarios \ {id_usuario},
          aristas |-> [e \in {d \in conectado : d[1] # id_usuario /\ d[2] # id_usuario}
                          |-> aristas[e]],
          aristasHobby |-> DeleteHobbyEdges(aristasHobby, id_usuario),
          asignados |-> asignados]

\* a CREATE that adds the edge back from destino to origen as well
CreateEdgeBothWays(id_origen, id_destino) ==
    LET p == <<id_origen, id_destino>>
        q == <<id_destino, id_origen>>
    IN  [e \in conectado \cup {p, q} |->
            IF e \in conectado THEN aristas[e] + (IF e = p THEN 1 ELSE 0) ELSE 1]

\* UsuarioRepository.create_conexion: CREATE adds one edge from origen to
\* destino, whether or not one is there already
CreateEdge(id_origen, id_destino) ==
    LET p == <<id_origen, id_destino>>
    IN  [e \in conectado \cup {p} |->
            IF e # p THEN aristas[e]
            ELSE IF p \in conectado THEN aristas[p] + 1 ELSE 1]

\* UsuarioRepository.delete_conexion: DELETE r takes every edge r from
\* origen to destino
DeleteEdges(id_origen, id_destino) ==
    [e \in conectado \ {<<id_origen, id_destino>>} |-> aristas[e]]

\* UsuarioRepository.conexion_exists
ConexionExists(id_origen, id_destino) == <<id_origen, id_destino>> \in conectado

\* create_conexion without the conexion_exists check
CreateConexionUnchecked(id_origen, id_destino) ==
    IF id_origen = id_destino THEN Unchanged(BadRequest)
    ELSE IF ~FindById(id_origen) \/ ~FindById(id_destino) THEN Unchanged(NotFound)
    ELSE [response |-> [status |-> "ok"],
          usuarios |-> usuarios,
          aristas |-> CreateEdge(id_origen, id_destino),
          aristasHobby |-> aristasHobby,
          asignados |-> asignados]

\* UsuarioService.create_conexion
CreateConexion(id_origen, id_destino) ==
    IF id_origen = id_destino THEN Unchanged(BadRequest)
    ELSE IF ~FindById(id_origen) \/ ~FindById(id_destino) THEN Unchanged(NotFound)
    ELSE IF ConexionExists(id_origen, id_destino) THEN Unchanged(Conflict)
    ELSE [response |-> [status |-> "ok"],
          usuarios |-> usuarios,
          aristas |-> CreateEdge(id_origen, id_destino),
          aristasHobby |-> aristasHobby,
          asignados |-> asignados]

\* UsuarioService.delete_conexion
DeleteConexion(id_origen, id_destino) ==
    IF id_origen = id_destino THEN Unchanged(BadRequest)
    ELSE IF ~FindById(id_origen) \/ ~FindById(id_destino) THEN Unchanged(NotFound)
    ELSE IF ~ConexionExists(id_origen, id_destino) THEN Unchanged(NotFound)
    ELSE [response |-> [status |-> "ok"],
          usuarios |-> usuarios,
          aristas |-> DeleteEdges(id_origen, id_destino),
          aristasHobby |-> aristasHobby,
          asignados |-> asignados]

\* the graph a call leaves; its cursor block ends with the commit, or with
\* the rollback of its own failure, and the connection is as it was
Leaves(out) ==
    /\ usuarios' = out.usuarios
    /\ aristas' = out.aristas
    /\ aristasHobby' = out.aristasHobby
    /\ asignados' = out.asignados
    /\ transaccion' = transaccion

HobbyArgs == 0..(MaxHobby + 1)
CrudIds == 1..(MaxCreates + 1)

PostUsuario ==
    /\ Idle
    /\ Len(asignados) < MaxCreates
    /\ \E id_hobby \in HobbyArgs, taken \in BOOLEAN :
         /\ taken => usuarios # {}
         /\ request' = [op |-> "create_usuario", id_hobby |-> id_hobby,
                        taken |-> taken]
         /\ response' = CreateUsuario(id_hobby, taken).response
         /\ Leaves(CreateUsuario(id_hobby, taken))
    /\ queries' = <<>>

DelUsuario ==
    /\ Idle
    /\ \E id_usuario \in CrudIds :
         /\ request' = [op |-> "delete_usuario", id_usuario |-> id_usuario]
         /\ response' = DeleteUsuario(id_usuario).response
         /\ Leaves(DeleteUsuario(id_usuario))
    /\ queries' = <<>>

PutUsuario ==
    /\ Idle
    /\ \E id_usuario \in CrudIds, id_hobby \in HobbyArgs, taken \in BOOLEAN :
         /\ taken => Cardinality(usuarios \ {id_usuario}) > 0
         /\ request' = [op |-> "update_usuario", id_usuario |-> id_usuario,
                        id_hobby |-> id_hobby, taken |-> taken]
         /\ response' = UpdateUsuario(id_usuario, id_hobby, taken).response
         /\ Leaves(UpdateUsuario(id_usuario, id_hobby, taken))
    /\ queries' = <<>>

PatchUsuarioCall ==
    /\ Idle
    /\ \E id_usuario \in CrudIds, id_hobby \in HobbyArgs,
          fields \in BOOLEAN, named \in BOOLEAN, taken \in BOOLEAN :
         /\ named => fields
         /\ taken => named /\ Cardinality(usuarios \ {id_usuario}) > 0
         /\ request' = [op |-> "patch_usuario", id_usuario |-> id_usuario,
                        id_hobby |-> id_hobby, fields |-> fields,
                        named |-> named, taken |-> taken]
         /\ response' = PatchUsuario(id_usuario, id_hobby, fields, named, taken).response
         /\ Leaves(PatchUsuario(id_usuario, id_hobby, fields, named, taken))
    /\ queries' = <<>>

PostConexion ==
    /\ Idle
    /\ \E id_origen \in CrudIds, id_destino \in CrudIds :
         /\ request' = [op |-> "create_conexion", id_origen |-> id_origen,
                        id_destino |-> id_destino]
         /\ response' = CreateConexion(id_origen, id_destino).response
         /\ Leaves(CreateConexion(id_origen, id_destino))
    /\ queries' = <<>>

DelConexion ==
    /\ Idle
    /\ \E id_origen \in CrudIds, id_destino \in CrudIds :
         /\ request' = [op |-> "delete_conexion", id_origen |-> id_origen,
                        id_destino |-> id_destino]
         /\ response' = DeleteConexion(id_origen, id_destino).response
         /\ Leaves(DeleteConexion(id_origen, id_destino))
    /\ queries' = <<>>

\* the application starts on the empty graph
InitCrud ==
    /\ usuarios = {}
    /\ aristas = OneEach({})
    /\ aristasHobby = OneEach({})
    /\ asignados = <<>>
    /\ transaccion = "idle"
    /\ request = [op |-> "none"]
    /\ queries = <<>>
    /\ response = [status |-> "none"]

NextCrud == PostUsuario \/ DelUsuario \/ PostConexion \/ DelConexion \/ Deliver

SpecCrud == InitCrud /\ [][NextCrud]_vars

\* the user calls alone: create, PUT, PATCH and delete
NextHobby ==
    PostUsuario \/ PutUsuario \/ PatchUsuarioCall \/ DelUsuario \/ Deliver

SpecHobby == InitCrud /\ [][NextHobby]_vars

\* the connection calls and delete-user, from any graph without self-loops
\* and without a pair joined twice
InitCon == InitGraph(MaxCreates, MaxEdges)

NextCon == DelUsuario \/ PostConexion \/ DelConexion \/ Deliver

SpecCon == InitCon /\ [][NextCon]_vars

---------------------------------------------------------------------------
(* Creating a user statement by statement, next to the create calls of     *)
(* other clients.  UsuarioRepository.create reads the next id with one     *)
(* statement and creates the vertex with another; a create of another      *)
(* client may commit between the two.  No user is deleted here, so every   *)
(* entry of asignados stands for one Usuario vertex in the graph.          *)

\* the checks of create_usuario and get_next_usuario_id
CreateNextId ==
    /\ Idle
    /\ Len(asignados) < MaxCreates + 2
    /\ \E id_hobby \in HobbyArgs, taken \in BOOLEAN :
         /\ taken => usuarios # {}
         /\ request' = [op |-> "create_usuario", id_hobby |-> id_hobby,
                        taken |-> taken]
         /\ response' =
                IF taken THEN Conflict
                ELSE IF id_hobby # 0 /\ id_hobby \notin Hobbies THEN BadRequest
                ELSE [status |-> "running", at |-> "create",
                      next_id |-> GetNextUsuarioId]
    /\ queries' = <<>>
    /\ UNCHANGED <<usuarios, aristas, aristasHobby, asignados, transaccion>>

\* the CREATE of UsuarioRepository.create with the id read before
CreateVertex ==
    /\ request.op = "create_usuario"
    /\ response.status = "running"
    /\ LET next_id == response.next_id
       IN  /\ usuarios' = usuarios \cup {next_id}
           /\ asignados' = Append(asignados, next_id)
           /\ aristasHobby' =
                  IF request.id_hobby # 0
                  THEN CreateHobbyEdge(aristasHobby, next_id, request.id_hobby)
                  ELSE aristasHobby
           /\ response' = [status |-> "ok", id_usuario |-> next_id]
    /\ UNCHANGED <<aristas, transaccion, request, queries>>

\* the create call of another client commits while this one is between its
\* two statements
OtherCreate ==
    /\ request.op = "create_usuario"
    /\ response.status = "running"
    /\ Len(asignados) < MaxCreates + 2
    /\ Leaves(CreateUsuario(0, FALSE))
    /\ UNCHANGED <<request, queries, response>>

InitCreate == InitGraph(MaxCreates, MaxEdges)

NextCreate == CreateNextId \/ CreateVertex \/ OtherCreate \/ Deliver

SpecCreate == InitCreate /\ [][NextCreate]_vars

---------------------------------------------------------------------------
(* Decoding a vertex (UsuarioRepository._parse_agtype_vertex).  The store  *)
(* hands a vertex over as the text of {"id", "label", "properties"}        *)
(* followed by ::vertex; a text is a sequence of pieces.                   *)

Labels == {"Usuario", "Hobby", "CategoriaHobby"}

\* the id field the decoder fills in for a label
IdField(label) ==
    CASE label = "Usuario" -> "id_usuario"
      [] label = "Hobby" -> "id_hobby"
      [] label = "CategoriaHobby" -> "id_categoria_hobby"

IdFields == {IdField(l) : l \in Labels}

\* the property keys of the envelopes, in the order they are written
Keys == <<"id_usuario", "id_hobby", "id_categoria_hobby", "nombre">>

\* the pieces a text property is made of: a letter and the two marks the
\* decoder looks for
Pieces == {"a", "::vertex", "::edge"}

RECURSIVE SeqsUpTo(_, _)
\* the sequences over S of length at most n
SeqsUpTo(S, n) ==
    IF n = 0 THEN {<<>>}
    ELSE LET shorter == SeqsUpTo(S, n - 1)
         IN  shorter \cup {Append(q, x) : q \in shorter, x \in S}

Texts == SeqsUpTo(Pieces, MaxText)

\* the property mappings: any of the id fields and nombre, each present or
\* not
IdProperties == UNION {[ks -> 1..MaxVertexId] : ks \in SUBSET IdFields}

Properties ==
    IdProperties \cup
    {[k \in DOMAIN ps \cup {"nombre"} |-> IF k = "nombre" THEN t ELSE ps[k]]
        : ps \in IdProperties, t \in Texts}

Envelopes == [id : 1..MaxVertexId, label : Labels, properties : Properties]

\* the numbers as they stand in a text
Digits == <<"1", "2", "3", "4", "5", "6", "7", "8", "9">>

RECURSIVE PropsText(_, _)
\* the JSON text of the properties from key number i on
PropsText(ps, i) ==
    IF i > Len(Keys) THEN <<>>
    ELSE LET k == Keys[i]
             here == IF k \notin DOMAIN ps THEN <<>>
                     ELSE IF k = "nombre"
                     THEN <<k, "quote">> \o ps[k] \o <<"quote">>
                     ELSE <<k, Digits[ps[k]]>>
         IN  here \o PropsText(ps, i + 1)

\* the JSON text of an envelope
JsonText(env) ==
    <<"{", Digits[env.id], env.label, "{">>
        \o PropsText(env.properties, 1) \o <<"}", "}">>

\* what the store returns for a vertex: the JSON text and the type suffix
AgtypeText(env) == JsonText(env) \o <<"::vertex">>

\* clean_value.split(mark)[0]: the text before the first mark, the whole
\* text when the mark is not in it
SplitFirst(text, mark) ==
    IF \E i \in 1..Len(text) : text[i] = mark
    THEN LET first == CHOOSE i \in 1..Len(text) :
                          /\ text[i] = mark
                          /\ \A j \in 1..(i - 1) : text[j] # mark
         IN  SubSeq(text, 1, first - 1)
    ELSE text

IsDigit(piece) == \E n \in 1..Len(Digits) : Digits[n] = piece

Number(piece) == CHOOSE n \in 1..Len(Digits) : Digits[n] = piece

RECURSIVE RawProps(_, _, _)
\* reads the properties object from piece i on: the mapping read so far is
\* ps; ends after the closing brace
RawProps(text, i, ps) ==
    IF i > Len(text) THEN [status |-> "error"]
    ELSE IF text[i] = "}" THEN [status |-> "ok", properties |-> ps, end |-> i]
    ELSE IF text[i] \in IdFields
    THEN IF i + 1 <= Len(text) /\ IsDigit(text[i + 1])
         THEN RawProps(text, i + 2,
                       [k \in DOMAIN ps \cup {text[i]} |->
                           IF k = text[i] THEN Number(text[i + 1]) ELSE ps[k]])
         ELSE [status |-> "error"]
    ELSE IF text[i] = "nombre" /\ i + 1 <= Len(text) /\ text[i + 1] = "quote"
    THEN IF \E j \in (i + 2)..Len(text) : text[j] = "quote"
         THEN LET close == CHOOSE j \in (i + 2)..Len(text) :
                               /\ text[j] = "quote"
                               /\ \A m \in (i + 2)..(j - 1) : text[m] # "quote"
              IN  RawProps(text, close + 1,
                           [k \in DOMAIN ps \cup {"nombre"} |->
                               IF k = "nombre" THEN SubSeq(text, i + 2, close - 1)
                               ELSE ps[k]])
         ELSE [status |-> "error"]
    ELSE [status |-> "error"]

\* json.JSONDecoder().raw_decode: the first JSON object of the text and
\* where it ends
RawDecode(text) ==
    IF /\ Len(text) >= 4
       /\ text[1] = "{" /\ IsDigit(text[2]) /\ text[3] \in Labels /\ text[4] = "{"
    THEN LET props == RawProps(text, 5, <<>>)
         IN  IF /\ props.status = "ok"
                /\ props.end + 1 <= Len(text)
                /\ text[props.end + 1] = "}"
             THEN [status |-> "ok", end |-> props.end + 1,
                   data |-> [id |-> Number(text[2]), label |-> text[3],
                             properties |-> props.properties]]
             ELSE [status |-> "error"]
    ELSE [status |-> "error"]

\* json.loads: the text is one JSON object and nothing after it
JsonLoads(text) ==
    LET raw == RawDecode(text)
    IN  IF raw.status = "ok" /\ raw.end = Len(text) THEN raw
        ELSE [status |-> "error"]

\* the last lines of _parse_agtype_vertex: the properties, with the id
\* field of the label set from the envelope's id when it is not among them
VertexProperties(vertex_data) ==
    LET properties == vertex_data.properties
        with(k) == [j \in DOMAIN properties \cup {k} |->
                      IF j = k THEN vertex_data.id ELSE properties[j]]
    IN  IF "id_usuario" \notin DOMAIN properties /\ vertex_data.label = "Usuario"
        THEN with("id_usuario")
        ELSE IF "id_hobby" \notin DOMAIN properties /\ vertex_data.label = "Hobby"
        THEN with("id_hobby")
        ELSE IF "id_categoria_hobby" \notin DOMAIN properties
                /\ vertex_data.label = "CategoriaHobby"
        THEN with("id_categoria_hobby")
        ELSE properties

\* UsuarioRepository._parse_agtype_vertex on the text the store returned
ParseAgtypeVertex(agtype_value) ==
    LET clean_value == SplitFirst(SplitFirst(agtype_value, "::vertex"), "::edge")
        loaded == IF JsonLoads(clean_value).status = "ok"
                  THEN JsonLoads(clean_value)
                  ELSE RawDecode(clean_value)
    IN  IF loaded.status = "error" THEN [status |-> "error"]
        ELSE [status |-> "ok", properties |-> VertexProperties(loaded.data)]

\* a vertex comes back from the store and is decoded
DecodeVertex ==
    /\ Idle
    /\ \E env \in Envelopes :
         /\ request' = [op |-> "decode_vertex", envelope |-> env]
         /\ queries' = <<>>
         /\ response' = ParseAgtypeVertex(AgtypeText(env))
    /\ UNCHANGED <<usuarios, aristas, aristasHobby, asignados, transaccion>>

NextVertex == DecodeVertex \/ Deliver

SpecVertex == InitCrud /\ [][NextVertex]_vars

---------------------------------------------------------------------------
(* The ego subgraph call statement by statement, next to other clients.    *)
(* find_by_id, the node query and the edge query are three statements;     *)
(* each sees what was committed before it started, so a user or connection *)
(* call of another client may take effect between two of them.             *)

Running(at) == [status |-> "running", at |-> at]

\* find_by_id and the validation of get_ego_graph
EgoLookup ==
    /\ Idle
    /\ \E id_usuario \in CallIds, depth \in EgoDepthArgs, max_nodes \in MaxNodesArgs :
         /\ request' = [op |-> "ego", id_usuario |-> id_usuario,
                        depth |-> depth, max_nodes |-> max_nodes, fail |-> 0]
         /\ response' =
                IF ~FindById(id_usuario) THEN NotFound
                ELSE IF depth < MinEgoDepth \/ depth > MaxEgoDepth THEN BadRequest
                ELSE IF max_nodes < MinMaxNodes \/ max_nodes > MaxMaxNodes
                THEN BadRequest
                ELSE Running("nodes")
         /\ queries' = <<QFindById(id_usuario)>>
    /\ UNCHANGED <<usuarios, aristas, aristasHobby, asignados, transaccion>>

\* the node query of get_ego_subgraph; without rows the call is over
EgoNodes ==
    /\ request.op = "ego"
    /\ response = Running("nodes")
    /\ \E node_ids \in EgoNodeRows(request.id_usuario, request.depth,
                                      request.max_nodes) :
         /\ queries' = Append(queries, QEgoNodes(request.depth, request.max_nodes))
         /\ response' =
                IF node_ids # {}
                THEN [status |-> "running", at |-> "edges", nodes |-> node_ids]
                ELSE [status |-> "ok", nodes |-> node_ids, edges |-> <<>>,
                      stats |-> GraphStats(0, 0)]
    /\ UNCHANGED <<usuarios, aristas, aristasHobby, asignados, transaccion, request>>

\* the edge query of get_ego_subgraph and the rest of the handler
EgoEdgesQuery ==
    /\ request.op = "ego"
    /\ response.status = "running"
    /\ response.at = "edges"
    /\ LET edges == EgoEdges(EdgeList(EgoEdgeRows(response.nodes)))
       IN  /\ queries' = Append(queries, QEgoEdges(response.nodes))
           /\ response' = [status |-> "ok", nodes |-> response.nodes,
                           edges |-> edges,
                           stats |-> GraphStats(Cardinality(response.nodes),
                                                Len(edges))]
    /\ UNCHANGED <<usuarios, aristas, aristasHobby, asignados, transaccion, request>>

\* a user or connection call of another client commits while the ego call
\* is between two statements (the new user comes without a hobby: hobbies
\* play no part in the node set and the edges)
OtherClient ==
    /\ response.status = "running"
    /\ \/ /\ Len(asignados) < MaxCreates
          /\ Leaves(CreateUsuario(0, FALSE))
       \/ \E id_usuario \in CrudIds : Leaves(DeleteUsuario(id_usuario))
       \/ \E id_origen \in CrudIds, id_destino \in CrudIds :
             Leaves(CreateConexion(id_origen, id_destino))
       \/ \E id_origen \in CrudIds, id_destino \in CrudIds :
             Leaves(DeleteConexion(id_origen, id_destino))
    /\ UNCHANGED <<request, queries, response>>

InitEgo == InitGraph(MaxCreates, MaxEdges)

NextEgo == EgoLookup \/ EgoNodes \/ EgoEdgesQuery \/ OtherClient \/ Deliver

SpecEgo == InitEgo /\ [][NextEgo]_vars

---------------------------------------------------------------------------
(* The shortest path call statement by statement, next to other clients.   *)
(* The two find_by_id, every probe and the nodes query are statements of   *)
(* their own; a user or connection call of another client may take effect  *)
(* between two of them.                                                    *)

\* where the loop of find_shortest_path stands: about to probe `depth`
Probing(depth) == [status |-> "running", at |-> "probe", depth |-> depth]

\* the loop is over without a chain: the None of find_shortest_path as the
\* service reports it
LoopEnd(depth, max_depth) ==
    IF depth > max_depth
    THEN [status |-> "ok", exists |-> FALSE, path |-> <<>>, length |-> 0]
    ELSE Probing(depth)

\* the two find_by_id of get_shortest_path
PathLookup ==
    /\ Idle
    /\ \E o \in CallIds, d \in CallIds, max_depth \in DepthArgs :
         /\ request' = [op |-> "shortest_path", origen |-> o, destino |-> d,
                        max_depth |-> max_depth, fail |-> 0]
         /\ queries' = IF ~FindById(o) THEN <<QFindById(o)>>
                       ELSE <<QFindById(o), QFindById(d)>>
         /\ response' = IF ~FindById(o) \/ ~FindById(d) THEN NotFound
                        ELSE LoopEnd(1, max_depth)
    /\ UNCHANGED <<usuarios, aristas, aristasHobby, asignados, transaccion>>

\* one probe of the loop: with a row the nodes query comes next, without
\* one the next depth
PathProbe ==
    /\ request.op = "shortest_path"
    /\ response.status = "running"
    /\ response.at = "probe"
    /\ queries' = Append(queries, QPathProbe(response.depth))
    /\ response' =
           IF MatchPath(request.origen, request.destino, response.depth) # {}
           THEN [status |-> "running", at |-> "nodes", depth |-> response.depth]
           ELSE LoopEnd(response.depth + 1, request.max_depth)
    /\ UNCHANGED <<usuarios, aristas, aristasHobby, asignados, transaccion, request>>

\* the nodes query after a probe with a row, and the return that follows
\* it: the path when it has rows, None when it has none
PathNodes ==
    /\ request.op = "shortest_path"
    /\ response.status = "running"
    /\ response.at = "nodes"
    /\ queries' = Append(queries, QPathNodes(response.depth))
    /\ LET matches == MatchPath(request.origen, request.destino, response.depth)
       IN  IF matches = {}
           THEN response' = [status |-> "ok", exists |-> FALSE, path |-> <<>>,
                             length |-> 0]
           ELSE \E rows \in matches :
                   response' = [status |-> "ok", exists |-> TRUE, path |-> rows,
                                length |-> Len(rows) - 1]
    /\ UNCHANGED <<usuarios, aristas, aristasHobby, asignados, transaccion, request>>

InitPath == InitGraph(MaxCreates, MaxEdges)

NextPath == PathLookup \/ PathProbe \/ PathNodes \/ OtherClient \/ Deliver

SpecPath == InitPath /\ [][NextPath]_vars

---------------------------------------------------------------------------
(* An engine call next to a failing request on the shared connection.      *)
(* db_connection is one psycopg connection for every request thread: the   *)
(* statements of all requests run in its one transaction.  A statement     *)
(* that raises leaves the transaction aborted until a rollback; until then *)
(* the server refuses every statement sent on the connection.              *)

\* the statements of the ego call, each on the connection outside a failed
\* transaction
SharedLookup == transaccion = "idle" /\ EgoLookup

SharedNodes == transaccion = "idle" /\ EgoNodes

SharedEdges == transaccion = "idle" /\ EgoEdgesQuery

\* the query the running ego call issues next
NextQuery ==
    IF response.at = "nodes" THEN QEgoNodes(request.depth, request.max_nodes)
    ELSE QEgoEdges(response.nodes)

\* a statement of the ego call sent while the transaction is aborted: the
\* server refuses it, execute raises, get_cursor rolls back and re-raises
InFailedTransaction ==
    /\ request.op = "ego"
    /\ response.status = "running"
    /\ transaccion = "inerror"
    /\ queries' = Append(queries, NextQuery)
    /\ response' = [status |-> "error"]
    /\ transaccion' = "idle"
    /\ UNCHANGED <<usuarios, aristas, aristasHobby, asignados, request>>

\* a statement of another request raises in its thread while the ego call
\* is between two statements (a create with a quote in the name, say)
OtherFails ==
    /\ response.status = "running"
    /\ transaccion = "idle"
    /\ transaccion' = "inerror"
    /\ UNCHANGED <<usuarios, aristas, aristasHobby, asignados, request, queries,
                   response>>

\* the except branch of get_cursor in the thread of the failed request
OtherRollback ==
    /\ transaccion = "inerror"
    /\ transaccion' = "idle"
    /\ UNCHANGED <<usuarios, aristas, aristasHobby, asignados, request, queries,
                   response>>

InitShared == InitGraph(MaxCreates, MaxEdges)

NextShared ==
    \/ SharedLookup \/ SharedNodes \/ SharedEdges \/ InFailedTransaction
    \/ OtherFails \/ OtherRollback \/ Deliver

SpecShared == InitShared /\ [][NextShared]_vars

---------------------------------------------------------------------------
(* What the claims are stated with.                                        *)

\* the ranges the route layer documents for the path and ego parameters
MinPathDepth == 1
MaxPathDepth == 5
RouteMaxEgoDepth == 2

RECURSIVE Ball(_, _)
\* the persons within n steps of v, a step following a CONECTADO edge in
\* either direction (edges may be walked more than once)
Ball(v, n) ==
    IF n <= 0 THEN {v}
    ELSE LET B == Ball(v, n - 1)
         IN  B \cup {w \in usuarios :
                       \E u \in B : <<u, w>> \in conectado \/ <<w, u>> \in conectado}

\* the length of the shortest undirected chain from o to d, -1 when none
Distance(o, d) ==
    IF d \in Ball(o, Cardinality(usuarios))
    THEN CHOOSE k \in 0..Cardinality(usuarios) :
             d \in Ball(o, k) /\ \A j \in 0..(k - 1) : d \notin Ball(o, j)
    ELSE 0 - 1

IsProbe(query) == query.q = "path_probe" \/ query.q = "path_nodes"

IsTraversal(query) == query.q # "find_by_id"

\* the successful "no path within the bound" result
NoPath == [status |-> "ok", exists |-> FALSE, path |-> <<>>, length |-> 0]

\* a chain of 1..max_depth edges joins o and d: for two persons, d is
\* within max_depth steps of o; from a person back to itself, a closed chain
\* that takes no edge twice
JoinedWithin(o, d, max_depth) ==
    IF o # d THEN max_depth >= 1 /\ d \in Ball(o, max_depth)
    ELSE \E n \in 1..max_depth : MatchPath(o, o, n) # {}

Recs == response.recommendations

---------------------------------------------------------------------------
(* Shortest path claims.                                                   *)

\* C1: for existing origin # destination whose shortest undirected chain
\* has length k, 1 <= k <= max_depth, get_shortest_path returns exists =
\* true, length = k and a path of k + 1 vertices, and no person-to-person
\* chain shorter than the returned length exists.
C1_ShortestChainReturned ==
    (/\ request.op = "shortest_path"
     /\ request.fail = 0
     /\ request.origen # request.destino
     /\ request.origen \in usuarios /\ request.destino \in usuarios
     /\ 1 <= Distance(request.origen, request.destino)
     /\ Distance(request.origen, request.destino) <= request.max_depth)
    => /\ response.status = "ok"
       /\ response.exists
       /\ response.length = Distance(request.origen, request.destino)
       /\ Len(response.path) = response.length + 1
       /\ \A n \in 0..(response.length - 1) :
              request.destino \notin Ball(request.origen, n)

\* a shortest chain of three edges is found and returned
C1_Witness ==
    /\ request.op = "shortest_path"
    /\ response.status = "ok"
    /\ request.origen # request.destino
    /\ response.exists
    /\ response.length = 3
    /\ request.max_depth > 3

\* C2 (as claimed, for max_depth in the documented range 1..5):
\* get_shortest_path(x, x, max_depth) on an existing x returns exists = true,
\* length 0, path = [x] and issues no path probe.
C2_TrivialPathToSelf ==
    (/\ request.op = "shortest_path"
     /\ request.fail = 0
     /\ request.origen = request.destino
     /\ request.origen \in usuarios
     /\ request.max_depth \in MinPathDepth..MaxPathDepth)
    => /\ response.status = "ok"
       /\ response.exists
       /\ response.length = 0
       /\ response.path = <<request.origen>>
       /\ \A i \in 1..Len(queries) : ~IsProbe(queries[i])

\* C3: with both persons existing and no chain of 1..max_depth edges
\* joining them, get_shortest_path succeeds with exactly exists = false,
\* path = [], length = 0; and it answers exists = false only then, never
\* when a store query raised.
C3_NoPathIsSuccess ==
    request.op = "shortest_path" =>
        /\ (/\ request.fail = 0
            /\ request.origen \in usuarios /\ request.destino \in usuarios
            /\ ~JoinedWithin(request.origen, request.destino, request.max_depth))
           => response = NoPath
        /\ (response.status = "ok" /\ ~response.exists)
           => /\ response = NoPath
              /\ request.fail = 0
              /\ request.origen \in usuarios /\ request.destino \in usuarios
              /\ ~JoinedWithin(request.origen, request.destino, request.max_depth)
        /\ request.fail # 0 => response.status = "error"

\* two existing, distinct persons that are connected, but farther apart
\* than the bound: the search ends with "no path"
C3_Witness ==
    /\ request.op = "shortest_path"
    /\ request.origen # request.destino
    /\ request.max_depth = 2
    /\ Distance(request.origen, request.destino) = 3
    /\ response = NoPath

\* C4: a shortest path, recommendation or ego call that names a person id
\* not in the graph ends with not-found (or with the error of the lookup
\* that raised), never with a success, and issues no traversal query.
C4_MissingPersonIsNotFound ==
    LET missing ==
            \/ /\ request.op = "shortest_path"
               /\ (request.origen \notin usuarios \/ request.destino \notin usuarios)
            \/ /\ request.op \in {"recommendations", "ego"}
               /\ request.id_usuario \notin usuarios
    IN  missing =>
            /\ response.status \in {"not_found", "error"}
            /\ request.fail = 0 => response.status = "not_found"
            /\ \A i \in 1..Len(queries) : ~IsTraversal(queries[i])

\* the origin exists, the destination does not
C4_Witness ==
    /\ request.op = "shortest_path"
    /\ request.origen \in usuarios
    /\ request.destino \notin usuarios
    /\ response.status = "not_found"
    /\ Len(queries) = 2

\* C5 (as claimed, for two existing persons): get_shortest_path handed a
\* max_depth outside 1..5 ends with a validation error, and never probes a
\* depth beyond 5.
C5_MaxDepthValidated ==
    (/\ request.op = "shortest_path"
     /\ request.fail = 0
     /\ request.origen # request.destino
     /\ request.origen \in usuarios /\ request.destino \in usuarios
     /\ request.max_depth \notin MinPathDepth..MaxPathDepth)
    => /\ response.status = "bad_request"
       /\ \A i \in 1..Len(queries) :
              queries[i].q = "path_probe" => queries[i].depth <= MaxPathDepth

\* C6 (as claimed, for an existing user): get_ego_graph handed a depth
\* outside {1, 2} or a max_nodes outside 10..2000 ends with a validation
\* error before any store query is issued.
C6_EgoValidatedBeforeStore ==
    (/\ request.op = "ego"
     /\ request.fail = 0
     /\ request.id_usuario \in usuarios
     /\ \/ request.depth \notin MinEgoDepth..RouteMaxEgoDepth
        \/ request.max_nodes \notin MinMaxNodes..MaxMaxNodes)
    => /\ response.status = "bad_request"
       /\ queries = <<>>

---------------------------------------------------------------------------
(* Recommendation claims.                                                  *)

\* C7: the recommendations never contain the requesting user nor a person
\* the user already has a CONECTADO edge to.
C7_NoSelfNoDirectFriend ==
    (request.op = "recommendations" /\ response.status = "ok") =>
        \A i \in 1..Len(Recs) :
            /\ Recs[i].id_usuario # request.id_usuario
            /\ <<request.id_usuario, Recs[i].id_usuario>> \notin conectado

\* the user is two hops from itself and from one of its direct friends,
\* and something else is recommended
C7_Witness ==
    /\ request.op = "recommendations"
    /\ response.status = "ok"
    /\ Len(Recs) > 0
    /\ \E f \in usuarios : /\ <<request.id_usuario, f>> \in conectado
                           /\ <<f, request.id_usuario>> \in conectado
    /\ \E f \in usuarios, p \in usuarios :
           /\ <<request.id_usuario, f>> \in conectado
           /\ <<f, p>> \in conectado
           /\ <<request.id_usuario, p>> \in conectado

\* C8: the recommendations are in non-increasing order of their reported
\* common-friend count, and every reported count is >= min_common.
C8_SortedAndAboveMinimum ==
    (request.op = "recommendations" /\ response.status = "ok") =>
        /\ \A i \in 1..Len(Recs), j \in 1..Len(Recs) :
               i < j => Recs[i].common_friends >= Recs[j].common_friends
        /\ \A i \in 1..Len(Recs) :
               /\ Recs[i].common_friends >= request.min_common
               /\ Recs[i].common_friends = Len(Recs[i].common_friends_ids)

\* two recommendations with different counts, the second one exactly at
\* the minimum
C8_Witness ==
    /\ request.op = "recommendations"
    /\ response.status = "ok"
    /\ Len(Recs) = 2
    /\ Recs[1].common_friends > Recs[2].common_friends
    /\ request.min_common = 1

\* the persons f with user -> f and f -> c
CommonOf(user, c) ==
    {f \in usuarios : <<user, f>> \in conectado /\ <<f, c>> \in conectado}

\* the persons recommend must return when the limit does not bind
Qualifying(user, min_common) ==
    {c \in usuarios : /\ c # user
                      /\ <<user, c>> \notin conectado
                      /\ Cardinality(CommonOf(user, c)) >= min_common}

\* C9: every returned candidate c reports as common-friend ids exactly the
\* distinct persons f with user -> f and f -> c, and as count their number;
\* with min_common >= 1 and a limit that does not bind, every person other
\* than the user, not connected from the user, with at least min_common
\* such f is returned.
C9_CommonFriendsExact ==
    (request.op = "recommendations" /\ response.status = "ok") =>
        /\ \A i \in 1..Len(Recs) :
               LET ids == Recs[i].common_friends_ids
               IN  /\ {ids[k] : k \in 1..Len(ids)}
                        = CommonOf(request.id_usuario, Recs[i].id_usuario)
                   /\ Len(ids) = Cardinality(CommonOf(request.id_usuario,
                                                      Recs[i].id_usuario))
                   /\ Recs[i].common_friends = Len(ids)
        /\ (/\ request.min_common >= 1
            /\ request.limit >= Cardinality(Qualifying(request.id_usuario,
                                                       request.min_common)))
           => {Recs[i].id_usuario : i \in 1..Len(Recs)}
                = Qualifying(request.id_usuario, request.min_common)

\* a candidate with two common friends is returned next to another one
C9_Witness ==
    /\ request.op = "recommendations"
    /\ response.status = "ok"
    /\ request.min_common = 1
    /\ Len(Recs) = 2
    /\ request.limit > 2
    /\ Len(Recs[1].common_friends_ids) = 2

\* C10: every score is the reported count divided by the largest count
\* among the returned entries (1 when there is none), rounded to two
\* decimals; every score is in [0, 1]; the first entry's score is 1.0.
\* Scores are in hundredths.
C10_ScoreNormalised ==
    (request.op = "recommendations" /\ response.status = "ok") =>
        LET denominator ==
                IF Len(Recs) = 0 THEN 1
                ELSE MaxOf({Recs[i].common_friends : i \in 1..Len(Recs)})
        IN  /\ \A i \in 1..Len(Recs) :
                   /\ Recs[i].score
                        = RoundHalfEven(100 * Recs[i].common_friends, denominator)
                   /\ 0 <= Recs[i].score /\ Recs[i].score <= 100
            /\ Len(Recs) > 0 => Recs[1].score = 100

\* two candidates with two and one common friends score 1.0 and 0.5
C10_Witness ==
    /\ request.op = "recommendations"
    /\ response.status = "ok"
    /\ Len(Recs) = 2
    /\ Recs[1].score = 100
    /\ Recs[2].score = 50

---------------------------------------------------------------------------
(* Ego subgraph claims.                                                    *)

\* the persons joined to user by a CONECTADO edge in either direction
DirectNeighbors(user) ==
    {p \in usuarios : <<user, p>> \in conectado \/ <<p, user>> \in conectado}

\* C11 (as claimed): for an existing user whose neighbourhood is smaller
\* than max_nodes, get_ego_graph(user, depth = 1, max_nodes) returns as node
\* set exactly {user} united with the direct neighbours of user, the centre
\* included.
C11_EgoDepthOneNodeSet ==
    (/\ request.op = "ego"
     /\ request.fail = 0
     /\ request.id_usuario \in usuarios
     /\ request.depth = 1
     /\ request.max_nodes \in MinMaxNodes..MaxMaxNodes
     /\ Cardinality({request.id_usuario} \cup DirectNeighbors(request.id_usuario))
           < request.max_nodes)
    => /\ response.status = "ok"
       /\ request.id_usuario \in response.nodes
       /\ response.nodes
            = {request.id_usuario} \cup DirectNeighbors(request.id_usuario)

Abs(x) == IF x < 0 THEN 0 - x ELSE x

\* C13: an ego result of n nodes and m edges reports avg_degree = 2m/n
\* (to the nearest hundredth) when n > 0 and exactly 0 when n = 0, density
\* = m / (n(n-1)/2) (to the nearest ten-thousandth) when n > 1 and exactly 0
\* when n <= 1; and a valid call on which no query raises always succeeds,
\* whatever n is.
C13_StatsFormulas ==
    request.op = "ego" =>
        /\ (/\ request.fail = 0
            /\ request.id_usuario \in usuarios
            /\ request.depth \in MinEgoDepth..MaxEgoDepth
            /\ request.max_nodes \in MinMaxNodes..MaxMaxNodes)
           => response.status = "ok"
        /\ response.status = "ok" =>
               LET n == Cardinality(response.nodes)
                   m == Len(response.edges)
                   stats == response.stats
               IN  /\ stats.total_nodes = n /\ stats.total_edges = m
                   /\ n = 0 => stats.avg_degree = 0
                   /\ n > 0 => 2 * Abs(stats.avg_degree * n - 100 * 2 * m) <= n
                   /\ n <= 1 => stats.density = 0
                   /\ n > 1 => 2 * Abs(stats.density * n * (n - 1) - 10000 * 2 * m)
                                  <= n * (n - 1)

\* three nodes and two edges: density 2/3 reported as 0.6667, degree 1.33
C13_Witness ==
    /\ request.op = "ego"
    /\ response.status = "ok"
    /\ response.stats.total_nodes = 3
    /\ response.stats.total_edges = 2
    /\ response.stats.density = 6667
    /\ response.stats.avg_degree = 133

\* C12: in every ego result the edges are exactly the directed CONECTADO
\* edges of the graph, as the edge query finds it, with both ends in the
\* returned node set: every returned edge has both ends in the node set,
\* every such edge is returned, no (source, target) pair twice, and the
\* ids are e0, e1, ... without gaps -- also when users or connections were
\* created or deleted between the node query and the edge query.
C12_EgoEdgesExact ==
    [][(/\ request'.op = "ego"
        /\ response'.status = "ok"
        /\ response.status = "running")
       => LET nodes == response'.nodes
              edges == response'.edges
              pairs == {<<edges[i].source, edges[i].target>> : i \in 1..Len(edges)}
          IN  /\ \A i \in 1..Len(edges) :
                     /\ edges[i].source \in nodes
                     /\ edges[i].target \in nodes
                     /\ edges[i].id = i - 1
              /\ pairs = {e \in conectado' : e[1] \in nodes /\ e[2] \in nodes}
              /\ Cardinality(pairs) = Len(edges)
              /\ response'.stats.total_edges = Len(edges)]_vars

\* a person of the node set was deleted before the edge query ran, and the
\* result still has the edges joining the remaining nodes
C12_Witness ==
    /\ request.op = "ego"
    /\ response.status = "ok"
    /\ \E n \in response.nodes : n \notin usuarios
    /\ Len(response.edges) > 0

---------------------------------------------------------------------------
(* Community and connection-list claims.                                   *)

\* the elements of a list
Elems(list) == {list[i] : i \in 1..Len(list)}

\* the persons with a TIENE_HOBBY edge to hobby h
Sharing(h) == {u \in usuarios : <<u, h>> \in tieneHobby}

\* C14: every community returned has size >= 2, its size is the number of
\* its members, its members are exactly the persons with a TIENE_HOBBY edge
\* to its hobby (each once), and every hobby shared by at least two persons
\* yields exactly one community.
C14_CommunitiesByHobby ==
    (request.op = "communities" /\ response.status = "ok") =>
        LET communities == response.communities
        IN  /\ \A i \in 1..Len(communities) :
                   /\ communities[i].size >= 2
                   /\ communities[i].size = Len(communities[i].members)
                   /\ Elems(communities[i].members)
                        = Sharing(communities[i].community_id)
                   /\ Cardinality(Elems(communities[i].members))
                        = Len(communities[i].members)
            /\ \A h \in Hobbies :
                   Cardinality(Sharing(h)) >= 2 =>
                       Cardinality({i \in 1..Len(communities) :
                                       communities[i].community_id = h}) = 1
            /\ response.total_communities = Len(communities)

\* one hobby shared by three persons makes a community, another hobby held
\* by a single person makes none
C14_Witness ==
    /\ request.op = "communities"
    /\ response.status = "ok"
    /\ Len(response.communities) = 1
    /\ response.communities[1].size = 3
    /\ \E h \in Hobbies : Cardinality(Sharing(h)) = 1

\* the persons A has a CONECTADO edge to
OutOf(A) == {B \in usuarios : <<A, B>> \in conectado}

RECURSIVE Total(_)
\* the sum of the lengths of the neighbour lists of the entries
Total(entries) ==
    IF entries = <<>> THEN 0
    ELSE Len(Head(entries).conexiones) + Total(Tail(entries))

\* C15: get_all_connections returns no entry for a person without
\* out-neighbours (every list is non-empty), stats.total_conexiones is the
\* sum of the lengths of the returned lists and
\* stats.total_usuarios_con_conexiones the number of entries.
C15_ConnectionsNonEmptyAndStats ==
    (request.op = "all_connections" /\ response.status = "ok") =>
        LET entries == response.conexiones
        IN  /\ \A i \in 1..Len(entries) :
                   /\ Len(entries[i].conexiones) > 0
                   /\ OutOf(entries[i].id_usuario) # {}
            /\ response.stats.total_conexiones = Total(entries)
            /\ response.stats.total_usuarios_con_conexiones = Len(entries)

\* one person with two out-neighbours, the other persons with none
C15_Witness ==
    /\ request.op = "all_connections"
    /\ response.status = "ok"
    /\ Cardinality(usuarios) > 2
    /\ Len(response.conexiones) = 1
    /\ response.stats.total_conexiones = 2

\* the neighbour list returned for person A, empty when A has no entry
ListOf(A) ==
    LET entries == response.conexiones
    IN  IF \E i \in 1..Len(entries) : entries[i].id_usuario = A
        THEN Elems(entries[CHOOSE i \in 1..Len(entries) :
                               entries[i].id_usuario = A].conexiones)
        ELSE {}

\* C16: the entry for person A lists exactly the persons B with an edge
\* A -> B, each once and never A; a person has at most one entry and has
\* one whenever it has an out-neighbour; so A -> B and B -> A both exist
\* iff A's list contains B and B's list contains A.
C16_ConnectionsExact ==
    (request.op = "all_connections" /\ response.status = "ok") =>
        LET entries == response.conexiones
        IN  /\ \A i \in 1..Len(entries) :
                   /\ Elems(entries[i].conexiones) = OutOf(entries[i].id_usuario)
                   /\ Cardinality(Elems(entries[i].conexiones))
                        = Len(entries[i].conexiones)
                   /\ entries[i].id_usuario \notin Elems(entries[i].conexiones)
            /\ \A i \in 1..Len(entries), j \in 1..Len(entries) :
                   entries[i].id_usuario = entries[j].id_usuario => i = j
            /\ \A A \in usuarios : ListOf(A) = OutOf(A)
            /\ \A A \in usuarios, B \in usuarios :
                   (<<A, B>> \in conectado /\ <<B, A>> \in conectado)
                     <=> (B \in ListOf(A) /\ A \in ListOf(B))

\* a mutual pair: each of the two lists holds the other person
C16_Witness ==
    /\ request.op = "all_connections"
    /\ response.status = "ok"
    /\ \E A \in usuarios, B \in usuarios :
           /\ A # B
           /\ B \in ListOf(A)
           /\ A \in ListOf(B)

---------------------------------------------------------------------------
(* Decoding and failure claims.                                            *)

\* C17 (as claimed, in what it rules out): when the store hands
\* get_recommendations, detect_communities or get_all_connections an array
\* it cannot parse, the call does not succeed with that array taken as an
\* empty list: no recommendation with common-friend count 0, no community
\* without members, no person with out-neighbours missing from the
\* connection list.
C17_MalformedArrayNeverEmptyList ==
    (/\ request.op \in {"recommendations", "communities", "all_connections"}
     /\ request.malformed > 0
     /\ response.status = "ok")
    => /\ request.op = "recommendations" =>
              \A i \in 1..Len(Recs) : Recs[i].common_friends > 0
       /\ request.op = "communities" =>
              \A i \in 1..Len(response.communities) :
                  /\ response.communities[i].size > 0
                  /\ response.communities[i].members # <<>>
       /\ request.op = "all_connections" =>
              \A A \in usuarios :
                  OutOf(A) # {} =>
                      \E i \in 1..Len(response.conexiones) :
                          response.conexiones[i].id_usuario = A

EngineOps ==
    {"shortest_path", "recommendations", "ego", "communities", "all_connections"}

\* C18: when a store query of an engine operation raises, the operation
\* ends with that failure: the failing query is the last one it issued (no
\* retry, nothing after it) and the caller gets the error, not a partial or
\* empty success; and an engine operation ends with an error only then.
C18_StoreFailurePropagates ==
    request.op \in EngineOps =>
        /\ request.fail > 0 =>
               /\ response = [status |-> "error"]
               /\ Len(queries) = request.fail
        /\ response.status = "error" => request.fail > 0

\* the second path probe raises after the first one found nothing
C18_Witness ==
    /\ request.op = "shortest_path"
    /\ request.fail = 4
    /\ queries[4] = QPathProbe(2)
    /\ response.status = "error"

\* C19: every engine operation, whatever its arguments and whether it
\* succeeds or fails, leaves the graph as it was: the Usuario vertices, the
\* CONECTADO edges and the TIENE_HOBBY edges after the call are those
\* before it.
C19_EngineLeavesGraphUnchanged ==
    [][/\ usuarios' = usuarios
       /\ aristas' = aristas
       /\ aristasHobby' = aristasHobby]_vars

\* a call that ended in an error, on a graph with connections and hobbies
C19_Witness ==
    /\ request.op \in EngineOps
    /\ response.status = "error"
    /\ Len(queries) > 1
    /\ conectado # {}
    /\ tieneHobby # {}

---------------------------------------------------------------------------
(* User and connection claims.                                             *)

\* C20 (as claimed): across any sequence of user creates and deletes, no
\* id is handed out twice: the ids create has assigned are pairwise
\* distinct, also after the person holding the largest id was deleted.
C20_IdsNeverReused ==
    \A i \in 1..Len(asignados), j \in 1..Len(asignados) :
        i # j => asignados[i] # asignados[j]

\* the step in which a call of the given kind is served
Serves(op) == request.op = "none" /\ request'.op = op

\* C21: after any sequence of completed create-connection,
\* delete-connection and delete-user calls no CONECTADO edge joins a person
\* to itself and no ordered pair is joined by more than one edge; a create
\* for a self-connection or for a pair already joined ends in an error and
\* leaves the edges as they were.
C21_NoSelfLoopNoDuplicate ==
    /\ [](\A e \in conectado : e[1] # e[2] /\ aristas[e] = 1)
    /\ [][Serves("create_conexion") =>
            LET o == request'.id_origen
                d == request'.id_destino
            IN  (o = d \/ <<o, d>> \in conectado) =>
                  /\ response'.status \in {"bad_request", "conflict"}
                  /\ aristas' = aristas]_vars

\* a create for a pair already joined (the opposite edge is there too) was
\* rejected
C21_Witness ==
    /\ request.op = "create_conexion"
    /\ response = Conflict
    /\ <<request.id_origen, request.id_destino>> \in conectado
    /\ <<request.id_destino, request.id_origen>> \in conectado

\* C23: a successful create-connection(A, B) adds the edge A->B and no
\* other edge (not B->A); a successful delete-connection(A, B) removes the
\* edge A->B and leaves every other edge, B->A included, as it was.
C23_ConnectionsDirectional ==
    [][LET o == request'.id_origen
           d == request'.id_destino
       IN  /\ (Serves("create_conexion") /\ response'.status = "ok") =>
                 /\ conectado' = conectado \cup {<<o, d>>}
                 /\ aristas'[<<o, d>>] = 1
                 /\ \A e \in conectado : aristas'[e] = aristas[e]
                 /\ aristasHobby' = aristasHobby
           /\ (Serves("delete_conexion") /\ response'.status = "ok") =>
                 /\ <<o, d>> \in conectado
                 /\ conectado' = conectado \ {<<o, d>>}
                 /\ \A e \in conectado' : aristas'[e] = aristas[e]
                 /\ aristasHobby' = aristasHobby]_vars

\* A->B was deleted and B->A is still there
C23_Witness ==
    /\ request.op = "delete_conexion"
    /\ response.status = "ok"
    /\ <<request.id_origen, request.id_destino>> \notin conectado
    /\ <<request.id_destino, request.id_origen>> \in conectado

\* C25: after any sequence of completed user create, PUT, PATCH and
\* delete calls every person has at most one TIENE_HOBBY edge; a call that
\* changes a person's hobby leaves the new edge in place of the old one.
C25_AtMostOneHobby ==
    /\ [](\A u \in usuarios :
            LET mine == {t \in tieneHobby : t[1] = u}
            IN  /\ Cardinality(mine) <= 1
                /\ \A t \in mine : aristasHobby[t] = 1)
    /\ [][((Serves("update_usuario") \/ Serves("patch_usuario"))
             /\ response'.status = "ok" /\ request'.id_hobby # 0) =>
            {t \in tieneHobby' : t[1] = request'.id_usuario}
                = {<<request'.id_usuario, request'.id_hobby>>}]_vars

\* a PATCH with nothing but a hobby was served and the person holds it,
\* next to another person who holds a hobby too
C25_Witness ==
    /\ request.op = "patch_usuario"
    /\ response.status = "ok"
    /\ ~request.fields
    /\ <<request.id_usuario, request.id_hobby>> \in tieneHobby
    /\ \E t \in tieneHobby : t[1] # request.id_usuario

---------------------------------------------------------------------------
(* Vertex decoding claim.                                                  *)

\* C24 (as claimed): for every vertex envelope with label Usuario, Hobby
\* or CategoriaHobby the decoder returns the property mapping in which the
\* id field of the label is the value among the properties when there is
\* one and the envelope's own id otherwise, every other property as it
\* was.
C24_DecodeVertexSynthesizesId ==
    request.op = "decode_vertex" =>
        LET env == request.envelope
            field == IdField(env.label)
        IN  /\ response.status = "ok"
            /\ DOMAIN response.properties = DOMAIN env.properties \cup {field}
            /\ \A k \in DOMAIN env.properties :
                   response.properties[k] = env.properties[k]
            /\ field \notin DOMAIN env.properties =>
                   response.properties[field] = env.id

---------------------------------------------------------------------------
(* Concurrent creates.                                                     *)

\* C26 (as claimed): whatever the interleaving of concurrent create-user
\* requests, no two Usuario vertices in the graph have the same id: there
\* are as many different ids as vertices.
C26_IdsUniqueUnderConcurrency ==
    Cardinality({asignados[i] : i \in 1..Len(asignados)}) = Len(asignados)

---------------------------------------------------------------------------
(* The probes of the shortest path search.                                 *)

RECURSIVE ProbeDepths(_)
\* the depths of the path probes among the queries, in the order issued
ProbeDepths(qs) ==
    IF qs = <<>> THEN <<>>
    ELSE IF Head(qs).q = "path_probe"
         THEN <<Head(qs).depth>> \o ProbeDepths(Tail(qs))
         ELSE ProbeDepths(Tail(qs))

\* C27: for origin # destination the search probes depths 1, 2, ... in
\* increasing order, never a depth above max_depth and none after the first
\* depth with a chain; a call that no store failure cuts short makes
\* exactly k probes when the shortest chain has length k <= max_depth and
\* exactly max_depth probes (none for max_depth below 1) when no chain of
\* at most max_depth edges exists.
C27_ProbesInOrder ==
    (request.op = "shortest_path" /\ request.origen # request.destino) =>
        LET ds == ProbeDepths(queries)
            k == Distance(request.origen, request.destino)
        IN  /\ \A i \in 1..Len(ds) : ds[i] = i /\ ds[i] <= request.max_depth
            /\ \A i \in 1..(Len(ds) - 1) : k = 0 - 1 \/ ds[i] < k
            /\ (/\ request.fail = 0
                /\ request.origen \in usuarios /\ request.destino \in usuarios)
               => IF 1 <= k /\ k <= request.max_depth
                  THEN Len(ds) = k
                  ELSE Len(ds) = Cardinality(1..request.max_depth)

\* a chain of two edges found with the second of up to four probes
C27_Witness ==
    /\ request.op = "shortest_path"
    /\ request.fail = 0
    /\ request.max_depth = 4
    /\ Distance(request.origen, request.destino) = 2
    /\ ProbeDepths(queries) = <<1, 2>>
    /\ response.status = "ok" /\ response.exists

\* C28: a path returned with exists = true starts at the origin, ends at
\* the destination, and every two vertices next to each other in it are
\* joined by a CONECTADO edge in one direction or the other.
C28_PathFromOriginToDestination ==
    (request.op = "shortest_path" /\ response.status = "ok" /\ response.exists) =>
        LET path == response.path
        IN  /\ Len(path) >= 1
            /\ path[1] = request.origen
            /\ path[Len(path)] = request.destino
            /\ \A i \in 1..(Len(path) - 1) :
                   \/ <<path[i], path[i + 1]>> \in conectado
                   \/ <<path[i + 1], path[i]>> \in conectado

\* a path of two steps between two persons, the first step along an edge
\* and the second against one
C28_Witness ==
    /\ request.op = "shortest_path"
    /\ response.status = "ok" /\ response.exists
    /\ request.origen # request.destino
    /\ Len(response.path) = 3
    /\ <<response.path[1], response.path[2]>> \in conectado
    /\ <<response.path[2], response.path[1]>> \notin conectado
    /\ <<response.path[2], response.path[3]>> \notin conectado

---------------------------------------------------------------------------
(* Scores and the limit.                                                   *)

\* the candidates of a recommendation call whatever its limit: the persons
\* other than the user, not connected from the user, with at least one and
\* at least min_common common friends
Candidates(user, min_common) ==
    {c \in Qualifying(user, min_common) : Cardinality(CommonOf(user, c)) >= 1}

\* C29: for a limit of at least 1 the largest common-friend count among
\* the returned candidates is the largest among all candidates, and the
\* score of a returned candidate is the same under every limit it is
\* returned with.
C29_ScoreIndependentOfLimit ==
    (/\ request.op = "recommendations"
     /\ response.status = "ok"
     /\ request.limit >= 1) =>
        LET user == request.id_usuario
            all == Candidates(user, request.min_common)
            largest == MaxOf({Cardinality(CommonOf(user, c)) : c \in all})
        IN  /\ all # {} =>
                /\ Len(Recs) >= 1
                /\ MaxOf({Recs[i].common_friends : i \in 1..Len(Recs)}) = largest
            /\ \A i \in 1..Len(Recs) :
                   Recs[i].score = Score(Recs[i].common_friends, largest)
            /\ \A limit \in 1..MaxLimitArg :
                 \A run \in GetRecommendations(user, limit, request.min_common) :
                   LET other == run.response.recommendations
                   IN  \A i \in 1..Len(Recs), j \in 1..Len(other) :
                           Recs[i].id_usuario = other[j].id_usuario
                               => Recs[i].score = other[j].score

\* the limit cut the list to the one candidate with the most common
\* friends, and a candidate with fewer was left out
C29_Witness ==
    /\ request.op = "recommendations"
    /\ response.status = "ok"
    /\ request.limit = 1
    /\ Len(Recs) = 1
    /\ Recs[1].common_friends = 2
    /\ \E c \in Candidates(request.id_usuario, request.min_common) :
           Cardinality(CommonOf(request.id_usuario, c)) = 1

---------------------------------------------------------------------------
(* The search next to concurrent writes.                                   *)

\* C30 (as claimed): also with connections created or deleted by other
\* clients during the call, exists = false is reported only after every
\* depth 1..max_depth was probed: the search does not stop with "no path"
\* while deeper depths are unprobed, not even when the nodes query that
\* follows a successful probe returns no rows.
C30_NoPathOnlyAfterAllDepths ==
    (/\ request.op = "shortest_path"
     /\ response.status = "ok"
     /\ ~response.exists) =>
        /\ ProbeDepths(queries) = [i \in 1..Len(ProbeDepths(queries)) |-> i]
        /\ Len(ProbeDepths(queries)) = Cardinality(1..request.max_depth)

---------------------------------------------------------------------------
(* Engine calls next to other requests on the shared connection.           *)

\* C22 (as claimed): an engine call served while other requests use the
\* shared connection returns what it returns when it runs alone on the
\* same graph, also when a statement of another request fails and that
\* request rolls back: the ego call ends with the queries and the response
\* of a run of the whole handler on the graph.
C22_ConcurrentCallsUnaffected ==
    (/\ request.op = "ego"
     /\ response.status \notin {"none", "running"}) =>
        \E run \in GetEgoGraph(request.id_usuario, request.depth,
                               request.max_nodes) :
            /\ queries = run.queries
            /\ response = run.response

===========================================================================
